---- MODULE Spec2Model ----
(***************************************************************************)
(* Model of day16/src/main.rs: the BITS packet decoder (Packet::hex_to_bin, *)
(* Packet::parse) and the evaluator (Packet::evaluate), driven by main.     *)
(*                                                                         *)
(* Packet::parse is recursive and reads from one shared forward-only       *)
(* iterator.  The recursion is an explicit stack of frames, one action per *)
(* straight-line piece of parse.  The bit stream is an input: because parse *)
(* never looks ahead and never goes back, the bits of each read are chosen *)
(* when the read happens, and so is the point where the stream ends (eof). *)
(* Every behaviour is the run of parse on one concrete bit sequence of at  *)
(* most MaxBits bits; the nesting of calls is bounded by that length.      *)
(***************************************************************************)
EXTENDS Integers, Sequences, FiniteSets, TLC

\* ------------------------------------------------------------- bounds
\* longest input of main, in hex digits (4 bits of stream each)
MaxNibbles == 12
\* largest value written in a 15-bit total-length field
MaxSubsLen == 22
\* largest value written in an 11-bit sub-packet-count field
MaxCount == 3
\* most iterations of the literal-group loop followed in one literal
MaxGroups == 2
\* longest hex string handed to Packet::hex_to_bin
MaxHexLen == 3

\* ------------------------------------------------- program constants
BIN == 2
HEX == 16
LTRL_GRP_LEN == 4
LTRL_LAST_GRP_STR == <<0>>
LTRL_LAST_GRP_LEN == Len(LTRL_LAST_GRP_STR)
LTRL_TYPEID == 4
TYPEID_BITS_LENGTH_BITS == 15
TYPEID_BITS_LENGTH_STR == <<0>>
TYPEID_COUNT_LENGTH_BITS == 11
TYPEID_COUNT_LENGTH_STR == <<1>>
TYPEID_LEN == 3
TYPEID_TYPE_LEN == Len(TYPEID_BITS_LENGTH_STR)
VERSION_LEN == 3
\* widths of the integer types the fields are parsed into
U8_BITS == 8
USIZE_BITS == 64
U64_BITS == 64

VARIABLES
    pos,        \* bits the shared iterator `bits` has yielded so far
    eof,        \* the iterator is known to be exhausted
    stack,      \* the active calls of Packet::parse, innermost last
    ret,        \* <<>> or <<r>>: what the last finished call of parse returned
    short,      \* some take(n) yielded fewer than n bits
    main_pc,    \* where main is
    root,       \* <<>> or <<packet>>: main's `packet`
    answer,     \* what packet.evaluate() returned
    hex_input,  \* hex_to_bin's `buffer`
    hex_pos,    \* characters of `buffer` already visited
    bin         \* hex_to_bin's `bin`

vars == <<pos, eof, stack, ret, short, main_pc, root, answer, hex_input, hex_pos, bin>>

hexVars == <<hex_input, hex_pos, bin>>

\* ------------------------------------------------------------ helpers
\* the w-bit MSB-first writing of v; used only to enumerate input streams
RECURSIVE Bits(_, _)
Bits(v, w) == IF w = 0 THEN <<>> ELSE Append(Bits(v \div 2, w - 1), v % 2)

RECURSIVE StripZeros(_)
StripZeros(s) == IF s # <<>> /\ Head(s) = 0 THEN StripZeros(Tail(s)) ELSE s

Err == -1

\* uN::from_str_radix(buf, BIN): Err on the empty string and on a value that
\* does not fit in `width` bits, else the digits folded left to right.
RECURSIVE FoldDigits(_, _)
FoldDigits(s, acc) ==
    IF s = <<>> THEN acc ELSE FoldDigits(Tail(s), acc * BIN + Head(s))

from_str_radix(buf, width) ==
    IF buf = <<>> THEN Err
    ELSE IF Len(StripZeros(buf)) > width THEN Err
    ELSE FoldDigits(buf, 0)

\* ------------------------------------------------------- input stream
\* bits one hex digit stands for (the width in format!("{:04b}"))
NIBBLE == 4
MaxBits == NIBBLE * MaxNibbles

VersionValues == {5}
PayloadValues == {1, 10}

VersionCand == {Bits(v, VERSION_LEN) : v \in VersionValues}
TypeIdCand == {Bits(v, TYPEID_LEN) : v \in 0 .. 7}
FlagCand == {<<0>>, <<1>>}
PayloadCand == {Bits(v, LTRL_GRP_LEN) : v \in PayloadValues}
BitsLengthCand == {Bits(v, TYPEID_BITS_LENGTH_BITS) : v \in 0 .. MaxSubsLen}
CountLengthCand == {Bits(v, TYPEID_COUNT_LENGTH_BITS) : v \in 0 .. MaxCount}

\* bits.by_ref().take(n).for_each(|c| buf.push(c)) with the iterator at
\* position p (e: already exhausted): every outcome [buf, pos, eof, short].
\* take(n) yields n bits, or fewer when the stream ends first; the stream is
\* hex_to_bin's output, so it ends after a whole number of hex digits.
take(p, e, n, cand) ==
    { [buf |-> SubSeq(c, 1, k), pos |-> p + k, eof |-> (e \/ k < n), short |-> (k < n)] :
        c \in cand,
        k \in IF e THEN {0}
              ELSE {j \in 0 .. n : /\ p + j <= MaxBits
                                   /\ j < n => (p + j) % NIBBLE = 0} }

\* ------------------------------------------------------------ packets
Literal(version, v) ==
    [version |-> version, type_id |-> [tag |-> "Literal", value |-> v]]

Operation(version, op, subs) ==
    [version |-> version, type_id |-> [tag |-> "Operation", op |-> op, subs |-> subs]]

IsLiteral(p) == p.type_id.tag = "Literal"
IsOperation(p) == p.type_id.tag = "Operation"

\* the match on op_type that ends parse
OperationType(op_type) ==
    CASE op_type = 0 -> "Sum"
      [] op_type = 1 -> "Product"
      [] op_type = 2 -> "Min"
      [] op_type = 3 -> "Max"
      [] op_type = 5 -> "Greater"
      [] op_type = 6 -> "Less"
      [] op_type = 7 -> "Equal"
      [] OTHER -> "panic"

\* ------------------------------------------------------ Packet::parse
\* One call of parse: its locals, its position, and what it has seen so far
\* (start, groups, calls, rets are the call's history, not program state).
NewFrame(start) ==
    [ pc |-> "version", version |-> 0, type_id |-> 0, lit_buf |-> <<>>,
      pkt_len |-> 0, subs |-> <<>>, subs_len |-> 0, parsed_len |-> 0,
      len |-> 0, i |-> 0,
      start |-> start, groups |-> <<>>, calls |-> 0, rets |-> <<>> ]

Top == stack[Len(stack)]
Running == main_pc = "parse" /\ stack # <<>>
At(label) == Running /\ Top.pc = label

SetTop(f) == [stack EXCEPT ![Len(stack)] = f]

Panic ==
    /\ main_pc' = "panicked"
    /\ UNCHANGED <<stack, ret, root, answer>>

\* Receive without `pkt_len += sub_len` in the sub-packet-count mode
Receive_no_len(caller, sub, sub_len) ==
    IF caller.pc = "subs_bits"
    THEN [caller EXCEPT !.subs = Append(@, sub),
                        !.parsed_len = @ + sub_len]
    ELSE [caller EXCEPT !.subs = Append(@, sub),
                        !.i = @ + 1]

\* the callee's tuple arrives in the caller: subs.push(sub), then the
\* caller's length bookkeeping for its framing mode
Receive(caller, sub, sub_len) ==
    IF caller.pc = "subs_bits"
    THEN [caller EXCEPT !.subs = Append(@, sub),
                        !.parsed_len = @ + sub_len]
    ELSE [caller EXCEPT !.subs = Append(@, sub),
                        !.pkt_len = @ + sub_len,
                        !.i = @ + 1]

\* the caller's history of the calls it made: what each returned and where
\* in the stream it started
Record(caller, sub, sub_len, start) ==
    [caller EXCEPT !.rets = Append(@, [packet |-> sub, pkt_len |-> sub_len,
                                       start |-> start])]

\* the call at the top of the stack returns (packet, pkt_len)
Return(f, packet, pkt_len) ==
    /\ ret' = << [ packet |-> packet, pkt_len |-> pkt_len, start |-> f.start,
                   end |-> pos, pc |-> f.pc, groups |-> f.groups,
                   subs_len |-> f.subs_len, len |-> f.len,
                   calls |-> f.calls, rets |-> f.rets ] >>
    /\ IF Len(stack) = 1
       THEN /\ stack' = <<>>
            /\ root' = <<packet>>
            /\ main_pc' = "evaluate"
       ELSE /\ stack' = [SubSeq(stack, 1, Len(stack) - 1) EXCEPT
                            ![Len(stack) - 1] =
                                Record(Receive(@, packet, pkt_len), packet, pkt_len, f.start)]
            /\ UNCHANGED <<root, main_pc>>
    /\ UNCHANGED answer

Advance(r) ==
    /\ pos' = r.pos
    /\ eof' = r.eof
    /\ short' = (short \/ r.short)

\* lines 77-83
ReadVersion ==
    /\ At("version")
    /\ \E r \in take(pos, eof, VERSION_LEN, VersionCand) :
        /\ Advance(r)
        /\ LET version == from_str_radix(r.buf, U8_BITS) IN
           IF version = Err THEN Panic
           ELSE /\ stack' = SetTop([Top EXCEPT !.pc = "type_id",
                                               !.version = version,
                                               !.pkt_len = @ + VERSION_LEN])
                /\ UNCHANGED <<ret, root, answer, main_pc>>
    /\ UNCHANGED hexVars

\* lines 85-93
ReadTypeId ==
    /\ At("type_id")
    /\ \E r \in take(pos, eof, TYPEID_LEN, TypeIdCand) :
        /\ Advance(r)
        /\ LET type_id == from_str_radix(r.buf, U8_BITS) IN
           IF type_id = Err THEN Panic
           ELSE /\ stack' = SetTop([Top EXCEPT
                        !.pc = IF type_id = LTRL_TYPEID THEN "literal" ELSE "typeid_type",
                        !.type_id = type_id,
                        !.pkt_len = @ + TYPEID_LEN])
                /\ UNCHANGED <<ret, root, answer, main_pc>>
    /\ UNCHANGED hexVars

\* lines 96-113: one iteration of the literal-group loop
ReadLiteralGroup ==
    /\ At("literal")
    /\ Len(Top.groups) < MaxGroups
    /\ \E r1 \in take(pos, eof, LTRL_LAST_GRP_LEN, FlagCand) :
       \E r2 \in take(r1.pos, r1.eof, LTRL_GRP_LEN, PayloadCand) :
        LET keep_going == r1.buf # LTRL_LAST_GRP_STR IN
        /\ pos' = r2.pos
        /\ eof' = r2.eof
        /\ short' = (short \/ r1.short \/ r2.short)
        /\ stack' = SetTop([Top EXCEPT
                !.pc = IF keep_going THEN "literal" ELSE "literal_done",
                !.lit_buf = @ \o r2.buf,
                !.pkt_len = @ + LTRL_LAST_GRP_LEN + LTRL_GRP_LEN,
                !.groups = Append(@, [flag |-> r1.buf, payload |-> r2.buf])])
    /\ UNCHANGED <<ret, root, answer, main_pc>>
    /\ UNCHANGED hexVars

\* lines 114-120
ReturnLiteral ==
    /\ At("literal_done")
    /\ LET value == from_str_radix(Top.lit_buf, U64_BITS) IN
       IF value = Err THEN Panic
       ELSE Return(Top, Literal(Top.version, value), Top.pkt_len)
    /\ UNCHANGED <<pos, eof, short>>
    /\ UNCHANGED hexVars

\* lines 123-133, 153, 168
ReadTypeIdType ==
    /\ At("typeid_type")
    /\ \E r \in take(pos, eof, TYPEID_TYPE_LEN, FlagCand) :
        /\ Advance(r)
        /\ LET typeid_type == r.buf IN
           IF typeid_type \notin {TYPEID_BITS_LENGTH_STR, TYPEID_COUNT_LENGTH_STR}
           THEN Panic
           ELSE /\ stack' = SetTop([Top EXCEPT
                        !.pc = IF typeid_type = TYPEID_BITS_LENGTH_STR
                               THEN "bits_length" ELSE "count_length",
                        !.pkt_len = @ + TYPEID_TYPE_LEN])
                /\ UNCHANGED <<ret, root, answer, main_pc>>
    /\ UNCHANGED hexVars

\* lines 134-140
ReadBitsLength ==
    /\ At("bits_length")
    /\ \E r \in take(pos, eof, TYPEID_BITS_LENGTH_BITS, BitsLengthCand) :
        /\ Advance(r)
        /\ LET subs_len == from_str_radix(r.buf, USIZE_BITS) IN
           IF subs_len = Err THEN Panic
           ELSE /\ stack' = SetTop([Top EXCEPT !.pc = "subs_bits",
                                               !.subs_len = subs_len,
                                               !.parsed_len = 0,
                                               !.pkt_len = @ + TYPEID_BITS_LENGTH_BITS])
                /\ UNCHANGED <<ret, root, answer, main_pc>>
    /\ UNCHANGED hexVars

\* the recursive call Packet::parse(bits) of lines 143 and 161
Call ==
    /\ stack' = Append(SetTop([Top EXCEPT !.calls = @ + 1]), NewFrame(pos))
    /\ UNCHANGED <<pos, eof, short, ret, root, answer, main_pc>>
    /\ UNCHANGED hexVars

\* lines 142-143: the loop goes round
SubsBitsCall ==
    /\ At("subs_bits")
    /\ Top.parsed_len < Top.subs_len
    /\ Call

\* the end of parse for an operator, lines 170-188
ReturnOperation(f, pkt_len) ==
    LET op == OperationType(f.type_id) IN
    IF op = "panic" THEN Panic
    ELSE Return(f, Operation(f.version, op, f.subs), pkt_len)

\* assert_eq with the assertion compiled out
assert_eq_off(left, right) == TRUE

\* assert_eq!(left, right) passes
assert_eq(left, right) == left = right

\* lines 142, 147-150, 170-188: the loop ends
SubsBitsDone ==
    /\ At("subs_bits")
    /\ ~(Top.parsed_len < Top.subs_len)
    /\ LET pkt_len == Top.pkt_len + Top.parsed_len IN
       IF ~assert_eq(Top.subs_len, Top.parsed_len) THEN Panic
       ELSE ReturnOperation(Top, pkt_len)
    /\ UNCHANGED <<pos, eof, short>>
    /\ UNCHANGED hexVars

\* lines 154-159
ReadCountLength ==
    /\ At("count_length")
    /\ \E r \in take(pos, eof, TYPEID_COUNT_LENGTH_BITS, CountLengthCand) :
        /\ Advance(r)
        /\ LET len == from_str_radix(r.buf, USIZE_BITS) IN
           IF len = Err THEN Panic
           ELSE /\ stack' = SetTop([Top EXCEPT !.pc = "subs_count",
                                               !.len = len,
                                               !.i = 0,
                                               !.pkt_len = @ + TYPEID_COUNT_LENGTH_BITS])
                /\ UNCHANGED <<ret, root, answer, main_pc>>
    /\ UNCHANGED hexVars

\* lines 160-161: the next of the (0..len) iterations
SubsCountCall ==
    /\ At("subs_count")
    /\ Top.i < Top.len
    /\ Call

\* lines 160, 165, 170-188: (0..len) is used up
SubsCountDone ==
    /\ At("subs_count")
    /\ ~(Top.i < Top.len)
    /\ ReturnOperation(Top, Top.pkt_len)
    /\ UNCHANGED <<pos, eof, short>>
    /\ UNCHANGED hexVars

Parse ==
    \/ ReadVersion
    \/ ReadTypeId
    \/ ReadLiteralGroup
    \/ ReturnLiteral
    \/ ReadTypeIdType
    \/ ReadBitsLength
    \/ SubsBitsCall
    \/ SubsBitsDone
    \/ ReadCountLength
    \/ SubsCountCall
    \/ SubsCountDone

\* --------------------------------------------------- Packet::evaluate
\* evaluate returns a u64, or panics (PanicValue) on an unwrap of None.
\* Values stay far below 2^64 within the bounds, so no addition or
\* multiplication overflows.
PanicValue == -1

RECURSIVE FoldSum(_, _)
FoldSum(vals, acc) ==
    IF vals = <<>> THEN acc
    ELSE IF Head(vals) = PanicValue THEN PanicValue
    ELSE FoldSum(Tail(vals), acc + Head(vals))

RECURSIVE FoldProduct(_, _)
FoldProduct(vals, acc) ==
    IF vals = <<>> THEN acc
    ELSE IF Head(vals) = PanicValue THEN PanicValue
    ELSE FoldProduct(Tail(vals), acc * Head(vals))

\* Iterator::min_by_key: the first element with the least key (None when empty)
min_by_key(keys) ==
    IF keys = <<>> THEN 0
    ELSE CHOOSE i \in 1 .. Len(keys) :
            /\ \A j \in 1 .. Len(keys) : keys[i] <= keys[j]
            /\ \A j \in 1 .. i - 1 : keys[j] > keys[i]

\* Iterator::max_by_key: the last element with the greatest key (None when empty)
max_by_key(keys) ==
    IF keys = <<>> THEN 0
    ELSE CHOOSE i \in 1 .. Len(keys) :
            /\ \A j \in 1 .. Len(keys) : keys[i] >= keys[j]
            /\ \A j \in i + 1 .. Len(keys) : keys[j] < keys[i]

\* u64::cmp
cmp(a, b) == IF a < b THEN "Less" ELSE IF a = b THEN "Equal" ELSE "Greater"

\* OrderingOf with the arms of Greater and Less exchanged
OrderingOf_exchanged(comp) ==
    CASE comp = "Greater" -> "Less"
      [] comp = "Less" -> "Greater"
      [] comp = "Equal" -> "Equal"

\* the Ordering a comparison operator stands for (lines 41-46)
OrderingOf(comp) ==
    CASE comp = "Greater" -> "Greater"
      [] comp = "Less" -> "Less"
      [] comp = "Equal" -> "Equal"

RECURSIVE evaluate(_)
evaluate(p) ==
    IF IsLiteral(p) THEN p.type_id.value
    ELSE
      LET op_type == p.type_id.op
          subs == p.type_id.subs
          vals == [i \in 1 .. Len(subs) |-> evaluate(subs[i])]
          anyPanic == \E i \in 1 .. Len(subs) : vals[i] = PanicValue
      IN  CASE op_type = "Sum" -> FoldSum(vals, 0)
            [] op_type = "Product" -> FoldProduct(vals, 1)
            [] op_type = "Min" ->
                 IF anyPanic \/ min_by_key(vals) = 0 THEN PanicValue
                 ELSE vals[min_by_key(vals)]
            [] op_type = "Max" ->
                 IF anyPanic \/ max_by_key(vals) = 0 THEN PanicValue
                 ELSE vals[max_by_key(vals)]
            [] OTHER ->
                 IF Len(subs) < 2 THEN PanicValue
                 ELSE LET pkt1 == vals[1]
                          pkt2 == vals[2]
                      IN  IF pkt1 = PanicValue \/ pkt2 = PanicValue THEN PanicValue
                          ELSE IF OrderingOf(op_type) = cmp(pkt1, pkt2) THEN 1 ELSE 0

\* line 218
Evaluate ==
    /\ main_pc = "evaluate"
    /\ LET v == evaluate(root[1]) IN
       IF v = PanicValue
       THEN /\ main_pc' = "panicked"
            /\ UNCHANGED answer
       ELSE /\ main_pc' = "done"
            /\ answer' = v
    /\ UNCHANGED <<pos, eof, stack, ret, short, root>>
    /\ UNCHANGED hexVars

\* ------------------------------------------------- Packet::hex_to_bin
HexLower == << "0", "1", "2", "3", "4", "5", "6", "7", "8", "9", "a", "b", "c", "d", "e", "f" >>
HexUpper == << "0", "1", "2", "3", "4", "5", "6", "7", "8", "9", "A", "B", "C", "D", "E", "F" >>

None == -1

\* to_digit that takes every character that is no digit for the digit 0
to_digit_lenient(c, radix) ==
    IF \E i \in 1 .. radix : HexLower[i] = c \/ HexUpper[i] = c
    THEN (CHOOSE i \in 1 .. radix : HexLower[i] = c \/ HexUpper[i] = c) - 1
    ELSE 0

\* char::to_digit(HEX): the digit's value, or None
to_digit(c, radix) ==
    IF \E i \in 1 .. radix : HexLower[i] = c \/ HexUpper[i] = c
    THEN (CHOOSE i \in 1 .. radix : HexLower[i] = c \/ HexUpper[i] = c) - 1
    ELSE None

\* the shortest binary writing of d, most significant bit first
RECURSIVE Binary(_)
Binary(d) == IF d < BIN THEN <<d>> ELSE Append(Binary(d \div BIN), d % BIN)

\* format!("{:04b}", d): Binary(d) padded with zeros on the left to 4 digits
Format04b(d) ==
    LET b == Binary(d) IN
    [i \in 1 .. (NIBBLE - Len(b)) |-> 0] \o b

\* the characters the input provider may put in the file
HexAlphabet == {"0", "5", "a", "E", "g", "\n"}

\* lines 67-69: the closure, for the next character of `buffer`
HexToBinChar ==
    /\ main_pc = "hex_to_bin"
    /\ hex_pos < Len(hex_input)
    /\ LET c == hex_input[hex_pos + 1]
           d == to_digit(c, HEX)
       IN  IF d = None
           THEN /\ main_pc' = "panicked"
                /\ UNCHANGED <<hex_pos, bin>>
           ELSE /\ bin' = bin \o Format04b(d)
                /\ hex_pos' = hex_pos + 1
                /\ UNCHANGED main_pc
    /\ UNCHANGED <<hex_input, pos, eof, stack, ret, short, root, answer>>

\* lines 70, 213: chars() is used up, hex_to_bin returns `bin` to main
HexToBinReturn ==
    /\ main_pc = "hex_to_bin"
    /\ hex_pos = Len(hex_input)
    /\ main_pc' = "converted"
    /\ UNCHANGED <<hex_input, hex_pos, bin, pos, eof, stack, ret, short, root, answer>>

\* ------------------------------------------------------ specifications
\* main from line 216 on: hex_to_bin has returned a stream of at most
\* MaxNibbles hex digits' worth of bits, and parse is called on it.
Init ==
    /\ pos = 0
    /\ eof = FALSE
    /\ stack = <<NewFrame(0)>>
    /\ ret = <<>>
    /\ short = FALSE
    /\ main_pc = "parse"
    /\ root = <<>>
    /\ answer = 0
    /\ hex_input = <<>>
    /\ hex_pos = 0
    /\ bin = <<>>

Next == Parse \/ Evaluate

Spec == Init /\ [][Next]_vars

\* main at line 213: the input provider has delivered hex_input
HexStrings == UNION {[1 .. n -> HexAlphabet] : n \in 0 .. MaxHexLen}

InitHex ==
    /\ hex_input \in HexStrings
    /\ hex_pos = 0
    /\ bin = <<>>
    /\ main_pc = "hex_to_bin"
    /\ pos = 0
    /\ eof = FALSE
    /\ stack = <<>>
    /\ ret = <<>>
    /\ short = FALSE
    /\ root = <<>>
    /\ answer = 0

NextHex == HexToBinChar \/ HexToBinReturn

SpecHex == InitHex /\ [][NextHex]_vars

\* ============================================================= claims
\* The child-count invariants of the packet tree.
Comparisons == {"Greater", "Less", "Equal"}

ChildCountOk(p) ==
    IsOperation(p) =>
        IF p.type_id.op \in Comparisons
        THEN Len(p.type_id.subs) = 2
        ELSE Len(p.type_id.subs) >= 1

RECURSIVE WellFormed(_)
WellFormed(p) ==
    /\ ChildCountOk(p)
    /\ IsOperation(p) => \A i \in 1 .. Len(p.type_id.subs) : WellFormed(p.type_id.subs[i])

\* The reference evaluator of the packet tree.
RECURSIVE SumOf(_)
SumOf(s) == IF s = <<>> THEN 0 ELSE Head(s) + SumOf(Tail(s))

RECURSIVE ProductOf(_)
ProductOf(s) == IF s = <<>> THEN 1 ELSE Head(s) * ProductOf(Tail(s))

Smallest(s) == CHOOSE m \in {s[i] : i \in 1 .. Len(s)} : \A i \in 1 .. Len(s) : m <= s[i]
Largest(s) == CHOOSE m \in {s[i] : i \in 1 .. Len(s)} : \A i \in 1 .. Len(s) : m >= s[i]

RECURSIVE Value(_)
Value(p) ==
    IF IsLiteral(p) THEN p.type_id.value
    ELSE LET v == [i \in 1 .. Len(p.type_id.subs) |-> Value(p.type_id.subs[i])]
             op == p.type_id.op
         IN  CASE op = "Sum" -> SumOf(v)
               [] op = "Product" -> ProductOf(v)
               [] op = "Min" -> Smallest(v)
               [] op = "Max" -> Largest(v)
               [] op = "Greater" -> IF v[1] > v[2] THEN 1 ELSE 0
               [] op = "Less" -> IF v[1] < v[2] THEN 1 ELSE 0
               [] op = "Equal" -> IF v[1] = v[2] THEN 1 ELSE 0

Evaluated == root # <<>> /\ main_pc \in {"done", "panicked"}

\* C1: for a tree that satisfies the child-count invariants, evaluate returns
\* (it does not panic) and returns the value of the reference evaluator.
C1_EvaluateIsReference ==
    (Evaluated /\ WellFormed(root[1])) =>
        (main_pc = "done" /\ answer = Value(root[1]))

\* C1 witness: a well-formed Greater over two different values was evaluated to 1.
C1_Witness ==
    /\ main_pc = "done"
    /\ WellFormed(root[1])
    /\ IsOperation(root[1])
    /\ root[1].type_id.op = "Greater"
    /\ answer = 1

\* what the last finished call of parse returned
Returned == ret # <<>>
R == ret[1]
ReturnedLiteral == Returned /\ R.pc = "literal_done"
ReturnedBitsMode == Returned /\ R.pc = "subs_bits"
ReturnedCountMode == Returned /\ R.pc = "subs_count"

RECURSIVE Concat(_)
Concat(ss) == IF ss = <<>> THEN <<>> ELSE Head(ss) \o Concat(Tail(ss))

RECURSIVE PowerOf2(_)
PowerOf2(n) == IF n = 0 THEN 1 ELSE 2 * PowerOf2(n - 1)

\* the unsigned number a bit string writes, most significant bit first
RECURSIVE Unsigned(_)
Unsigned(b) ==
    IF b = <<>> THEN 0 ELSE Head(b) * PowerOf2(Len(b) - 1) + Unsigned(Tail(b))

\* C2: a literal is read as 5-bit groups (a continuation bit and 4 payload
\* bits), up to and including the first group whose continuation bit is 0;
\* its value is the payload bits of all groups, concatenated, as an unsigned
\* MSB-first number; the returned bit count is 6 + 5 * (groups read).
C2_LiteralGroups ==
    ReturnedLiteral =>
        LET g == R.groups
            n == Len(g)
        IN  /\ n >= 1
            /\ \A i \in 1 .. n : Len(g[i].flag) = 1 /\ Len(g[i].payload) = 4
            /\ \A i \in 1 .. n - 1 : g[i].flag = <<1>>
            /\ g[n].flag = <<0>>
            /\ R.packet.type_id.value = Unsigned(Concat([i \in 1 .. n |-> g[i].payload]))
            /\ R.pkt_len = 6 + 5 * n

Lens(rets) == [i \in 1 .. Len(rets) |-> rets[i].pkt_len]
Packets(rets) == [i \in 1 .. Len(rets) |-> rets[i].packet]
InStreamOrder(rets) == \A i, j \in 1 .. Len(rets) : i < j => rets[i].start < rets[j].start

\* C3: an operator framed by a total length returns only when the bit counts
\* its children returned add up to totalChildBits exactly (an overshoot makes
\* parse fail, so no packet is returned); then its bit count is
\* 6 + 1 + 15 + totalChildBits and its children are the parsed packets in
\* stream order.
C3_BitsModeFraming ==
    ReturnedBitsMode =>
        /\ SumOf(Lens(R.rets)) = R.subs_len
        /\ R.pkt_len = 6 + 1 + 15 + R.subs_len
        /\ R.packet.type_id.subs = Packets(R.rets)
        /\ InStreamOrder(R.rets)

\* C3 witness: a total-length operator with two children has returned.
C3_Witness ==
    /\ ReturnedBitsMode
    /\ Len(R.rets) = 2
    /\ R.subs_len = 22

\* C4: an operator framed by a sub-packet count calls parse exactly childCount
\* times; its children are those packets in the order parsed, and its bit
\* count is 6 + 1 + 11 + the sum of the bit counts its children returned.
C4_CountModeFraming ==
    ReturnedCountMode =>
        /\ R.calls = R.len
        /\ Len(R.rets) = R.len
        /\ R.packet.type_id.subs = Packets(R.rets)
        /\ InStreamOrder(R.rets)
        /\ R.pkt_len = 6 + 1 + 11 + SumOf(Lens(R.rets))

\* C4 witness: a sub-packet-count operator with childCount = 2 has returned.
C4_Witness ==
    /\ ReturnedCountMode
    /\ R.len = 2
    /\ Len(R.packet.type_id.subs) = 2

\* C5: the bit count a call of parse returns is the number of bits by which
\* that call advanced the shared cursor.
C5_CountIsAdvance ==
    Returned => R.pkt_len = R.end - R.start

\* C6: a fixed-width read that gets fewer bits than it asked for makes parse
\* fail at that read: no field value is built from the short buffer and no
\* packet is returned.
C6_ShortReadFails ==
    short => main_pc = "panicked"

\* C7: every Operator packet parse returns satisfies the child-count
\* invariants; stated for the streams of which no read was cut short, so that
\* the packet is the one the bitstream declares.
C7_ParsedChildCounts ==
    (Returned /\ ~short) => ChildCountOk(R.packet)

\* C8: evaluate returns no value for a tree that violates the child-count
\* invariants; stated for the trees parsed from streams of which no read was
\* cut short.
C8_MalformedTreeFails ==
    (main_pc = "done" /\ ~short) => WellFormed(root[1])

IsHexDigit(c) ==
    c \in {"0", "1", "2", "3", "4", "5", "6", "7", "8", "9",
           "a", "b", "c", "d", "e", "f", "A", "B", "C", "D", "E", "F"}

C10_LiteralLoopStopsAtEnd ==
    [][(At("literal") /\ eof) => ~(At("literal"))']_vars

====
